---- MODULE Spec2Model ----
(***************************************************************************)
(* Model of GameEngine (src/game_engine.py): the two-player game state,    *)
(* update_internal_game_state, perform_action and the process_message      *)
(* consumer callback with its two outbound sinks.                          *)
(***************************************************************************)
EXTENDS Integers, Sequences, FiniteSets, TLC

VARIABLES
    game_state,   \* self.game_state: player key -> attribute -> value
    tasks,        \* one record per delivered message (a process_message callback)
    evalQueue,    \* what was published to update_eval_server_queue, in order
    topic,        \* what was published to the update_everyone topic, in order
    pre,          \* self.game_state before the last operation (history)
    last,         \* input of the last operation (history)
    trace,        \* locals of the last perform_action call (history)
    phase,        \* which operation ran last
    steps         \* number of operations run so far

vars == <<game_state, tasks, evalQueue, topic, pre, last, trace, phase, steps>>

\* ------------------------------------------------------------ bounds

\* Number of messages delivered to the consumer in one behaviour.
MaxEvents == 2

\* Largest opponent_in_rain_bomb counter an incoming game_state carries.
MaxRain == 2

\* Number of successive calls of update_internal_game_state explored alone.
MaxMerges == 2

\* ------------------------------------------------------------ game state

PlayerKeys == {"p1", "p2"}

Attrs == {"hp", "bullets", "bombs", "shield_hp", "deaths", "shields",
          "opponent_visible", "opponent_in_rain_bomb", "disconnected", "login"}

InitPlayer ==
    [hp |-> 100, bullets |-> 6, bombs |-> 2, shield_hp |-> 0, deaths |-> 0,
     shields |-> 3, opponent_visible |-> FALSE, opponent_in_rain_bomb |-> 0,
     disconnected |-> FALSE, login |-> FALSE]

InitGameState == [k \in PlayerKeys |-> InitPlayer]

Min(a, b) == IF a <= b THEN a ELSE b

\* ------------------------------------------------------------ StateMerger

\* A mutation of dict.update: the whole player entry is replaced, attributes
\* the update does not name fall back to their defaults.
UpdatePlayerReplacing(player, incoming) ==
    [a \in Attrs |-> IF a \in DOMAIN incoming THEN incoming[a] ELSE InitPlayer[a]]

\* A mutation of dict.update: hp and deaths are accumulated instead of
\* overwritten.
UpdatePlayerAccumulating(player, incoming) ==
    [a \in Attrs |->
        IF a \in DOMAIN incoming
        THEN IF a \in {"hp", "deaths"} THEN player[a] + incoming[a] ELSE incoming[a]
        ELSE player[a]]

\* dict.update: every key of incoming overwrites, every other key is kept.
UpdatePlayer(player, incoming) ==
    [a \in Attrs |-> IF a \in DOMAIN incoming THEN incoming[a] ELSE player[a]]

\* update_internal_game_state: for p1 and p2, if the key is present, update.
update_internal_game_state(gs, incoming_game_state) ==
    [k \in PlayerKeys |->
        IF k \in DOMAIN incoming_game_state
        THEN UpdatePlayer(gs[k], incoming_game_state[k])
        ELSE gs[k]]

\* ------------------------------------------------------------ ActionResolver

ActionTypes == {"gun", "bomb", "reload", "shield", "logout",
                "basket", "volley", "soccer", "bowl"}

\* f'p{player_id}'
PlayerKey(player_id) == IF player_id = 1 THEN "p1" ELSE "p2"

\* The key exists in self.game_state only for player_id 1 and 2.
ValidPlayerId(player_id) == player_id \in {1, 2}

OpponentKey(player_key) == IF player_key = "p2" THEN "p1" ELSE "p2"

\* An action that changes nothing of the actor and has no damage of its own.
NoEffect(player) == [player |-> player, damage |-> 0]

\* A mutation of the gun branch: the gun fires whatever bullets it holds.
GunEffectUnloaded(player, hit) ==
    [player |-> [player EXCEPT !.bullets = @ - 1], damage |-> IF hit THEN 5 ELSE 0]

\* A mutation of the gun branch: a shot that misses keeps its bullet.
GunEffectKeepingBulletOnMiss(player, hit) ==
    IF player.bullets > 0
    THEN [player |-> IF hit THEN [player EXCEPT !.bullets = @ - 1] ELSE player,
          damage |-> IF hit THEN 5 ELSE 0]
    ELSE NoEffect(player)

\* gun: with ammo, one bullet is spent and a hit deals 5.
GunEffect(player, hit) ==
    IF player.bullets > 0
    THEN [player |-> [player EXCEPT !.bullets = @ - 1],
          damage |-> IF hit THEN 5 ELSE 0]
    ELSE NoEffect(player)

\* A mutation of the bomb branch: the bomb is thrown at an opponent not seen.
BombEffectUnseen(player) ==
    IF player.bombs > 0
    THEN [player |-> [player EXCEPT !.bombs = @ - 1], damage |-> 5]
    ELSE NoEffect(player)

\* bomb: with a bomb left and the opponent visible, one bomb is spent and
\* deals 5.
BombEffect(player) ==
    IF player.bombs > 0 /\ player.opponent_visible
    THEN [player |-> [player EXCEPT !.bombs = @ - 1], damage |-> 5]
    ELSE NoEffect(player)

\* reload: only an empty gun is reloaded.
ReloadEffect(player) ==
    IF player.bullets = 0
    THEN [player |-> [player EXCEPT !.bullets = 6], damage |-> 0]
    ELSE NoEffect(player)

\* A mutation of the shield branch: an active shield is recharged.
ShieldEffectRecharging(player) ==
    IF player.shields > 0
    THEN [player |-> [player EXCEPT !.shields = @ - 1, !.shield_hp = 30],
          damage |-> 0]
    ELSE NoEffect(player)

\* shield: with a charge left and no active shield, a charge is spent and
\* the shield is set to 30.
ShieldEffect(player) ==
    IF player.shields > 0 /\ player.shield_hp = 0
    THEN [player |-> [player EXCEPT !.shields = @ - 1, !.shield_hp = 30],
          damage |-> 0]
    ELSE NoEffect(player)

\* basket, volley, soccer, bowl: 10 when the opponent is visible.
StrikeEffect(player) ==
    [player |-> player, damage |-> IF player.opponent_visible THEN 10 ELSE 0]

\* A mutation of the fallthrough: an unknown action is taken for a strike.
UnknownEffectStriking(player) ==
    [player |-> player, damage |-> IF player.opponent_visible THEN 10 ELSE 0]

\* No branch of the chain matches: nothing of the actor changes, no damage.
UnknownEffect(player) == NoEffect(player)

\* The if/elif chain on action_type: the actor after the action and the
\* action's own damage.
ActionEffect(player, action_type, hit) ==
    CASE action_type = "gun" -> GunEffect(player, hit)
      [] action_type = "bomb" -> BombEffect(player)
      [] action_type = "reload" -> ReloadEffect(player)
      [] action_type = "shield" -> ShieldEffect(player)
      [] action_type = "logout" ->
            [player |-> [player EXCEPT !.login = FALSE], damage |-> 0]
      [] action_type \in {"basket", "volley", "soccer", "bowl"} -> StrikeEffect(player)
      [] OTHER -> UnknownEffect(player)

\* A mutation of the rain step: a flat 5 whatever the counter.
RainDamageFlat(player) ==
    IF player.opponent_in_rain_bomb > 0 /\ player.opponent_visible THEN 5 ELSE 0

\* Rain damage: 5 per active rain bomb, only while the opponent is visible.
RainDamage(player) ==
    IF player.opponent_in_rain_bomb > 0 /\ player.opponent_visible
    THEN 5 * player.opponent_in_rain_bomb
    ELSE 0

\* A mutation of the shield step: the shield absorbs nothing.
ApplyShieldNoAbsorb(opponent, damage_to_opponent) ==
    [opponent |-> opponent, damage_to_shield |-> 0, damage |-> damage_to_opponent]

\* Damage goes to the opponent's shield first; a shield_hp that is not
\* positive is set to 0.
ApplyShield(opponent, damage_to_opponent) ==
    IF opponent.shield_hp > 0
    THEN IF damage_to_opponent > 0
         THEN LET damage_to_shield == Min(damage_to_opponent, opponent.shield_hp)
              IN  [opponent |-> [opponent EXCEPT !.shield_hp = @ - damage_to_shield],
                   damage_to_shield |-> damage_to_shield,
                   damage |-> damage_to_opponent - damage_to_shield]
         ELSE [opponent |-> opponent, damage_to_shield |-> 0,
               damage |-> damage_to_opponent]
    ELSE [opponent |-> [opponent EXCEPT !.shield_hp = 0], damage_to_shield |-> 0,
          damage |-> damage_to_opponent]

\* A mutation of the rebirth: the session flag is reset too.
RespawnResettingLogin(opponent) ==
    [opponent EXCEPT !.hp = 100, !.deaths = @ + 1, !.shields = 3,
                     !.shield_hp = 0, !.bullets = 6, !.bombs = 2, !.login = FALSE]

\* A mutation of the rebirth: the deaths counter is stepped the wrong way.
RespawnDecrementingDeaths(opponent) ==
    [opponent EXCEPT !.hp = 100, !.deaths = @ - 1, !.shields = 3,
                     !.shield_hp = 0, !.bullets = 6, !.bombs = 2]

\* Rebirth of a player whose hp is exhausted.
Respawn(opponent) ==
    [opponent EXCEPT !.hp = 100, !.deaths = @ + 1, !.shields = 3,
                     !.shield_hp = 0, !.bullets = 6, !.bombs = 2]

\* A mutation of the hp step: a player dies only below zero.
ApplyHpDyingBelowZero(opponent, damage_to_opponent) ==
    IF damage_to_opponent > 0
    THEN LET hit_opponent == [opponent EXCEPT !.hp = @ - damage_to_opponent]
         IN  [opponent |-> IF hit_opponent.hp < 0 THEN Respawn(hit_opponent)
                           ELSE hit_opponent,
              hp_after_damage |-> hit_opponent.hp,
              respawned |-> hit_opponent.hp < 0]
    ELSE [opponent |-> opponent, hp_after_damage |-> opponent.hp, respawned |-> FALSE]

\* The damage left after the shield is taken from hp; the player is reborn
\* when that takes hp to 0 or below.
ApplyHp(opponent, damage_to_opponent) ==
    IF damage_to_opponent > 0
    THEN LET hit_opponent == [opponent EXCEPT !.hp = @ - damage_to_opponent]
         IN  [opponent |-> IF hit_opponent.hp <= 0 THEN Respawn(hit_opponent)
                           ELSE hit_opponent,
              hp_after_damage |-> hit_opponent.hp,
              respawned |-> hit_opponent.hp <= 0]
    ELSE [opponent |-> opponent, hp_after_damage |-> opponent.hp, respawned |-> FALSE]

NoTrace ==
    [called |-> FALSE, player_key |-> "p1", opponent_key |-> "p2", base_damage |-> 0,
     total_damage |-> 0, damage_to_shield |-> 0, shield_after |-> 0,
     remaining_damage |-> 0, hp_after_damage |-> 0, respawned |-> FALSE]

\* perform_action for a player_id that has an entry in the game state: the new
\* game state and the values its local variables took.
perform_action(gs, player_id, action_type, hit) ==
    LET player_key == PlayerKey(player_id)
        opponent_key == OpponentKey(player_key)
        acted == ActionEffect(gs[player_key], action_type, hit)
        total == acted.damage + RainDamage(gs[player_key])
        shielded == ApplyShield(gs[opponent_key], total)
        damaged == ApplyHp(shielded.opponent, shielded.damage)
    IN  [gs |-> [k \in PlayerKeys |->
                    IF k = player_key THEN acted.player ELSE damaged.opponent],
         trace |-> [called |-> TRUE, player_key |-> player_key,
                    opponent_key |-> opponent_key, base_damage |-> acted.damage,
                    total_damage |-> total,
                    damage_to_shield |-> shielded.damage_to_shield,
                    shield_after |-> shielded.opponent.shield_hp,
                    remaining_damage |-> shielded.damage,
                    hp_after_damage |-> damaged.hp_after_damage,
                    respawned |-> damaged.respawned]]

\* ------------------------------------------------------------ MessageRouter

\* The game_state {} of an event that carries none.
EmptyUpdate == [a \in {} |-> 0]

NoEvent ==
    [action |-> FALSE, update |-> FALSE, player_id |-> 1, action_type |-> "gun",
     hit |-> FALSE, game_state |-> EmptyUpdate]

\* A mutation of the synchronous part: the action is resolved on the old
\* values and the incoming game_state merged afterwards.
ProcessSyncResolvingFirst(gs, ev) ==
    IF ev.action
    THEN IF ValidPlayerId(ev.player_id)
         THEN LET r == perform_action(gs, ev.player_id, ev.action_type, ev.hit)
              IN  [gs |-> update_internal_game_state(r.gs, ev.game_state),
                   trace |-> r.trace, raised |-> FALSE]
         ELSE [gs |-> update_internal_game_state(gs, ev.game_state),
               trace |-> NoTrace, raised |-> TRUE]
    ELSE [gs |-> update_internal_game_state(gs, ev.game_state),
          trace |-> NoTrace, raised |-> FALSE]

\* process_message up to its first await: the merge, then on the Action
\* route perform_action, whose lookup of game_state[f'p{player_id}'] raises
\* KeyError for a player_id other than 1 and 2.
ProcessSync(gs, ev) ==
    LET merged == update_internal_game_state(gs, ev.game_state)
    IN  IF ev.action
        THEN IF ValidPlayerId(ev.player_id)
             THEN LET r == perform_action(merged, ev.player_id, ev.action_type, ev.hit)
                  IN  [gs |-> r.gs, trace |-> r.trace, raised |-> FALSE]
             ELSE [gs |-> merged, trace |-> NoTrace, raised |-> TRUE]
        ELSE [gs |-> merged, trace |-> NoTrace, raised |-> FALSE]

\* json.dumps(mqtt_message): the message holds a reference to self.game_state,
\* and serialising it copies the values the store holds at that moment.
json_dumps(ev, gs) ==
    IF ev.action
    THEN [game_state |-> gs, action |-> ev.action_type, player_id |-> ev.player_id]
    ELSE [game_state |-> gs]

\* A mutation of the route choice: the update flag is looked at first.
RouteUpdateFirst(ev) ==
    IF ev.update THEN "sync" ELSE IF ev.action THEN "action" ELSE "silent"

\* if action_performed: ... elif to_update: ... else: ...
Route(ev) ==
    IF ev.action THEN "action" ELSE IF ev.update THEN "sync" ELSE "silent"

InFlight == {"awaitEval", "awaitMqtt"}

Task(ev, pc, str, cause) == [ev |-> ev, pc |-> pc, str |-> str, cause |-> cause]

Publication(id, body) == [id |-> id, body |-> body]

\* A message is delivered and its callback runs to its first await. Without
\* a prefetch limit the consumer starts a callback per delivery, so earlier
\* callbacks may still be suspended in a publication.
Deliver(ev) ==
    /\ Len(tasks) < MaxEvents
    /\ LET id == Len(tasks) + 1
           r == ProcessSync(game_state, ev)
           route == Route(ev)
           str == json_dumps(ev, r.gs)
       IN  /\ game_state' = r.gs
           /\ trace' = r.trace
           /\ IF r.raised
              THEN \* message.process() rejects the message, requeue=False
                   /\ tasks' = Append(tasks, Task(ev, "rejected", EmptyUpdate, "KeyError"))
                   /\ UNCHANGED <<evalQueue, topic>>
              ELSE CASE route = "action" ->
                          \* publish_to_update_eval_server_queue serialises
                          \* and sends, then awaits the broker
                          /\ evalQueue' = Append(evalQueue, Publication(id, json_dumps(ev, r.gs)))
                          /\ tasks' = Append(tasks, Task(ev, "awaitEval", str, "none"))
                          /\ UNCHANGED topic
                     [] route = "sync" ->
                          /\ topic' = Append(topic, Publication(id, str))
                          /\ tasks' = Append(tasks, Task(ev, "awaitMqtt", str, "none"))
                          /\ UNCHANGED evalQueue
                     [] OTHER ->
                          \* nothing to publish: the context exits and acks
                          /\ tasks' = Append(tasks, Task(ev, "acked", EmptyUpdate, "none"))
                          /\ UNCHANGED <<evalQueue, topic>>
    /\ pre' = game_state
    /\ last' = ev
    /\ phase' = "delivered"
    /\ steps' = steps + 1

\* A mutation of the resumption: the incoming game_state is merged once more
\* after the awaited publish.
EvalPublishedMergingAgain(t) ==
    /\ t \in 1..Len(tasks)
    /\ tasks[t].pc = "awaitEval"
    /\ game_state' = update_internal_game_state(game_state, tasks[t].ev.game_state)
    /\ topic' = Append(topic, Publication(t, tasks[t].str))
    /\ tasks' = [tasks EXCEPT ![t].pc = "awaitMqtt"]
    /\ phase' = "published"
    /\ UNCHANGED <<evalQueue, pre, last, trace, steps>>

\* A mutation of the resumption: the message is serialised after the awaited
\* publish, from the store as it is then.
EvalPublishedSerialisingLate(t) ==
    /\ t \in 1..Len(tasks)
    /\ tasks[t].pc = "awaitEval"
    /\ topic' = Append(topic, Publication(t, json_dumps(tasks[t].ev, game_state)))
    /\ tasks' = [tasks EXCEPT ![t].pc = "awaitMqtt"]
    /\ phase' = "published"
    /\ UNCHANGED <<game_state, evalQueue, pre, last, trace, steps>>

\* The evaluation queue's publish returns: the callback resumes and sends
\* mqtt_message_str to the topic, then awaits that publish.
EvalPublished(t) ==
    /\ t \in 1..Len(tasks)
    /\ tasks[t].pc = "awaitEval"
    /\ topic' = Append(topic, Publication(t, tasks[t].str))
    /\ tasks' = [tasks EXCEPT ![t].pc = "awaitMqtt"]
    /\ phase' = "published"
    /\ UNCHANGED <<game_state, evalQueue, pre, last, trace, steps>>

\* The topic's publish returns: the callback leaves message.process() without
\* an exception, which acks the message.
MqttPublished(t) ==
    /\ t \in 1..Len(tasks)
    /\ tasks[t].pc = "awaitMqtt"
    /\ tasks' = [tasks EXCEPT ![t].pc = "acked"]
    /\ phase' = "published"
    /\ UNCHANGED <<game_state, evalQueue, topic, pre, last, trace, steps>>

\* An awaited publish raises: the exception leaves message.process(), which
\* rejects the message with requeue=False, its default.
PublishFailed(t) ==
    /\ t \in 1..Len(tasks)
    /\ tasks[t].pc \in InFlight
    /\ tasks' = [tasks EXCEPT ![t].pc = "rejected",
                              ![t].cause = IF tasks[t].pc = "awaitEval"
                                           THEN "eval publish" ELSE "mqtt publish"]
    /\ phase' = "failed"
    /\ UNCHANGED <<game_state, evalQueue, topic, pre, last, trace, steps>>

\* ------------------------------------------------------------ inbound events

\* Partial game states as the visualizer and the evaluation server send them.
SeesOpponent == [p1 |-> [opponent_visible |-> TRUE]]
LosesOpponent == [p1 |-> [opponent_visible |-> FALSE]]
RainOnBoth ==
    [p1 |-> [opponent_visible |-> TRUE, opponent_in_rain_bomb |-> MaxRain],
     p2 |-> [opponent_visible |-> TRUE, opponent_in_rain_bomb |-> 0]]
WeakP2 == [p2 |-> [hp |-> 5]]
EvalServerUpdate ==
    [p1 |-> [hp |-> 90, bullets |-> 6, bombs |-> 2, shield_hp |-> 0, deaths |-> 0,
             shields |-> 3],
     p2 |-> [hp |-> 100, bullets |-> 6, bombs |-> 2, shield_hp |-> 0, deaths |-> 0,
             shields |-> 3]]

ActionEvents ==
    [action : {TRUE}, update : {FALSE}, player_id : {1},
     action_type : {"gun", "bomb"}, hit : {TRUE},
     game_state : {SeesOpponent, LosesOpponent, WeakP2}]
    \cup
    [action : {TRUE}, update : {FALSE}, player_id : {2}, action_type : {"gun"},
     hit : {TRUE}, game_state : {SeesOpponent}]
    \cup
    [action : {TRUE}, update : {TRUE}, player_id : {1}, action_type : {"gun"},
     hit : {TRUE}, game_state : {EmptyUpdate, RainOnBoth}]
    \cup
    \* a player_id that names no player
    [action : {TRUE}, update : {FALSE}, player_id : {3}, action_type : {"gun"},
     hit : {TRUE}, game_state : {SeesOpponent}]

PlainEvents ==
    [action : {FALSE}, update : BOOLEAN, player_id : {1}, action_type : {"gun"},
     hit : {FALSE}, game_state : {EmptyUpdate, SeesOpponent, EvalServerUpdate}]

Events == ActionEvents \cup PlainEvents

\* ------------------------------------------------------------ the engine

Init ==
    /\ game_state = InitGameState
    /\ tasks = <<>>
    /\ evalQueue = <<>>
    /\ topic = <<>>
    /\ pre = InitGameState
    /\ last = NoEvent
    /\ trace = NoTrace
    /\ phase = "init"
    /\ steps = 0

Next ==
    \/ \E ev \in Events : Deliver(ev)
    \/ \E t \in 1..MaxEvents : EvalPublished(t)
    \/ \E t \in 1..MaxEvents : MqttPublished(t)
    \/ \E t \in 1..MaxEvents : PublishFailed(t)

Spec == Init /\ [][Next]_vars

\* ------------------------------------------------------------ update_internal_game_state alone

\* What an incoming game_state may hold for one player.
PlayerUpdates ==
    {EmptyUpdate,
     [hp |-> 90], [hp |-> -5, deaths |-> 1],
     [opponent_visible |-> TRUE, opponent_in_rain_bomb |-> MaxRain],
     [login |-> TRUE, disconnected |-> TRUE],
     [hp |-> 100, bullets |-> 3, bombs |-> 1, shield_hp |-> 30, deaths |-> 0,
      shields |-> 2]}

\* Incoming game states: zero, one or two player keys.
IncomingStates == UNION {[K -> PlayerUpdates] : K \in SUBSET PlayerKeys}

\* One call of update_internal_game_state.
MergeNew(inc) ==
    /\ steps < MaxMerges
    /\ game_state' = update_internal_game_state(game_state, inc)
    /\ pre' = game_state
    /\ last' = [NoEvent EXCEPT !.game_state = inc]
    /\ phase' = "merged"
    /\ steps' = steps + 1
    /\ UNCHANGED <<tasks, evalQueue, topic, trace>>

\* The call is repeated with the same incoming game_state.
MergeAgain ==
    /\ phase = "merged"
    /\ game_state' = update_internal_game_state(game_state, last.game_state)
    /\ pre' = game_state
    /\ phase' = "merged twice"
    /\ UNCHANGED <<tasks, evalQueue, topic, last, trace, steps>>

NextMerge ==
    \/ \E inc \in IncomingStates : MergeNew(inc)
    \/ MergeAgain

SpecMerge == Init /\ [][NextMerge]_vars

\* ------------------------------------------------------------ perform_action alone

\* Values an update gives the player who then acts.
ActorUpdates ==
    [bullets : {0, 6}, bombs : {0, 2}, shields : {0, 3}, shield_hp : {0, 30},
     opponent_visible : BOOLEAN, opponent_in_rain_bomb : 0..MaxRain]

\* Values an update gives the player who is then acted upon; the merge checks
\* no range, so hp and shield_hp may be out of their domain.
OpponentUpdates ==
    [hp : {-5, 0, 5, 10, 100}, shield_hp : {-5, 0, 5, 30}, bullets : {1},
     bombs : {0}, shields : {1}, deaths : {2}, opponent_visible : {TRUE},
     opponent_in_rain_bomb : {1}, disconnected : {TRUE}, login : {TRUE}]

\* An update of both players, or one that carries nothing and leaves the
\* initial state.
ResolveSetups == [p1 : ActorUpdates, p2 : OpponentUpdates] \cup {EmptyUpdate}

\* An action_type outside the vocabulary.
OtherActionTypes == {"dance"}

ResolveInputs ==
    [player_id : {1, 2, 3}, action_type : {"gun"}, hit : BOOLEAN]
    \cup
    [player_id : {1, 2, 3},
     action_type : (ActionTypes \cup OtherActionTypes) \ {"gun"}, hit : {FALSE}]

\* An update brings the store to the state the action is resolved in.
Setup(inc) ==
    /\ phase = "init"
    /\ game_state' = update_internal_game_state(game_state, inc)
    /\ pre' = game_state
    /\ last' = [NoEvent EXCEPT !.game_state = inc]
    /\ phase' = "ready"
    /\ steps' = steps + 1
    /\ UNCHANGED <<tasks, evalQueue, topic, trace>>

\* One call of perform_action; a player_id without an entry raises KeyError
\* before anything is written.
Resolve(in) ==
    /\ phase = "ready"
    /\ pre' = game_state
    /\ last' = [NoEvent EXCEPT !.action = TRUE, !.player_id = in.player_id,
                               !.action_type = in.action_type, !.hit = in.hit]
    /\ IF ValidPlayerId(in.player_id)
       THEN LET r == perform_action(game_state, in.player_id, in.action_type, in.hit)
            IN  /\ game_state' = r.gs
                /\ trace' = r.trace
                /\ phase' = "resolved"
       ELSE /\ phase' = "raised"
            /\ UNCHANGED <<game_state, trace>>
    /\ steps' = steps + 1
    /\ UNCHANGED <<tasks, evalQueue, topic>>

NextResolve ==
    \/ \E inc \in ResolveSetups : Setup(inc)
    \/ \E in \in ResolveInputs : Resolve(in)

SpecResolve == Init /\ [][NextResolve]_vars

\* ------------------------------------------------------------ malformed bodies

\* A JSON value that is no object, such as the number 5, where a mapping is
\* expected.
NotAMapping == [not_a_mapping |-> 5]

\* Where update_internal_game_state raises on an incoming game_state:
\* `'p1' in 5` raises at once, `self.game_state['p1'].update(5)` raises when
\* the loop comes to that player.
MergeRaisesAt(incoming_game_state) ==
    IF incoming_game_state = NotAMapping THEN "game_state"
    ELSE IF "p1" \in DOMAIN incoming_game_state /\ incoming_game_state["p1"] = NotAMapping
         THEN "p1"
    ELSE IF "p2" \in DOMAIN incoming_game_state /\ incoming_game_state["p2"] = NotAMapping
         THEN "p2"
    ELSE "none"

\* The store when the loop over p1, p2 raises: p1 has been updated when the
\* loop raises at p2.
MergeUntilRaise(gs, incoming_game_state) ==
    IF MergeRaisesAt(incoming_game_state) = "p2" /\ "p1" \in DOMAIN incoming_game_state
    THEN [gs EXCEPT !["p1"] = UpdatePlayer(gs["p1"], incoming_game_state["p1"])]
    ELSE gs

\* Events whose game_state is not a mapping of player keys to mappings.
MisshapenEvents ==
    [action : {FALSE}, update : {TRUE}, player_id : {1}, action_type : {"gun"},
     hit : {FALSE},
     game_state : {NotAMapping,
                   [p1 |-> [hp |-> 90], p2 |-> NotAMapping]}]
    \cup
    [action : {TRUE}, update : {FALSE}, player_id : {1}, action_type : {"gun"},
     hit : {TRUE},
     game_state : {[p1 |-> NotAMapping, p2 |-> [hp |-> 90]]}]

\* Well-formed events delivered around the malformed ones.
IntakeEvents == {ev \in Events : ev.game_state \in {EmptyUpdate, SeesOpponent}}

\* A body that is not JSON is delivered: json.loads raises before anything
\* is read, and message.process() rejects the message.
DeliverUndecodable ==
    /\ Len(tasks) < MaxEvents
    /\ tasks' = Append(tasks, Task(NoEvent, "rejected", EmptyUpdate, "JSONDecodeError"))
    /\ pre' = game_state
    /\ last' = NoEvent
    /\ trace' = NoTrace
    /\ phase' = "delivered"
    /\ steps' = steps + 1
    /\ UNCHANGED <<game_state, evalQueue, topic>>

\* A misshapen event is delivered: the merge raises TypeError part-way, the
\* exception leaves process_message before any publish, and
\* message.process() rejects the message.
DeliverMisshapen(ev) ==
    /\ Len(tasks) < MaxEvents
    /\ MergeRaisesAt(ev.game_state) # "none"
    /\ game_state' = MergeUntilRaise(game_state, ev.game_state)
    /\ tasks' = Append(tasks, Task(ev, "rejected", EmptyUpdate, "TypeError"))
    /\ pre' = game_state
    /\ last' = ev
    /\ trace' = NoTrace
    /\ phase' = "delivered"
    /\ steps' = steps + 1
    /\ UNCHANGED <<evalQueue, topic>>

NextIntake ==
    \/ \E ev \in IntakeEvents : Deliver(ev)
    \/ DeliverUndecodable
    \/ \E ev \in MisshapenEvents : DeliverMisshapen(ev)
    \/ \E t \in 1..MaxEvents : EvalPublished(t)
    \/ \E t \in 1..MaxEvents : MqttPublished(t)
    \/ \E t \in 1..MaxEvents : PublishFailed(t)

SpecIntake == Init /\ [][NextIntake]_vars

\* ------------------------------------------------------------ play

MaxDeaths == 2

\* A rain counter large enough for one action to take all of a player's hp.
HeavyRain == 10 * MaxRain

\* What the visualizer reports of player k: logged in with the opponent in
\* sight under a heavy rain, or connected with the opponent in sight under a
\* light one (the counter is never negative).
InHeavyRain(k) ==
    [x \in {k} |-> [opponent_visible |-> TRUE, opponent_in_rain_bomb |-> HeavyRain,
                    login |-> TRUE]]
InLightRain(k) ==
    [x \in {k} |-> [opponent_visible |-> TRUE, opponent_in_rain_bomb |-> MaxRain,
                    disconnected |-> FALSE]]

\* The events of the player who attacks: actions of any type with nothing
\* reported, and shots, bombs and strikes with the opponent reported in
\* sight.
AttackEvents(i) ==
    [action : {TRUE}, update : {FALSE}, player_id : {i}, action_type : {"gun"},
     hit : BOOLEAN, game_state : {EmptyUpdate, InHeavyRain(PlayerKey(i))}]
    \cup
    [action : {TRUE}, update : {FALSE}, player_id : {i},
     action_type : (ActionTypes \cup OtherActionTypes) \ {"gun"},
     hit : {FALSE}, game_state : {EmptyUpdate}]
    \cup
    [action : {TRUE}, update : {FALSE}, player_id : {i},
     action_type : {"bomb", "basket"},
     hit : {FALSE}, game_state : {InLightRain(PlayerKey(i))}]

\* The events of the player who is attacked: it raises its shield, tries to
\* reload, bombs or strikes an opponent it does not see, or sends an unknown
\* action.
DefendEvents(i) ==
    [action : {TRUE}, update : {FALSE}, player_id : {i},
     action_type : (ActionTypes \cup OtherActionTypes) \ {"gun", "logout"},
     hit : {FALSE}, game_state : {EmptyUpdate}]

\* The phase of a game in which player i does the attacking.
Attacking(i) == IF i = 1 THEN "p1 attacks" ELSE "p2 attacks"

\* One event is merged and resolved; the publications that follow do not
\* write the store. The games played are those in which no player dies more
\* than MaxDeaths times.
Play(ev) ==
    /\ game_state' = ProcessSync(game_state, ev).gs
    /\ \A k \in PlayerKeys : game_state'[k].deaths <= MaxDeaths
    /\ UNCHANGED <<tasks, evalQueue, topic, pre, last, trace, steps>>

\* An event of the attacker: in the games played one player does all the
\* attacking, the first to send such an event.
Attack(ev) ==
    /\ phase \in {"init", Attacking(ev.player_id)}
    /\ phase' = Attacking(ev.player_id)
    /\ Play(ev)

\* An event of a player who is not the attacker.
Defend(ev) ==
    /\ phase # Attacking(ev.player_id)
    /\ phase' = phase
    /\ Play(ev)

NextPlay ==
    \/ \E i \in {1, 2} : \E ev \in AttackEvents(i) : Attack(ev)
    \/ \E i \in {1, 2} : \E ev \in DefendEvents(i) : Defend(ev)

SpecPlay == Init /\ [][NextPlay]_vars

\* ------------------------------------------------------------ helpers of the properties

TaskIds == 1..Len(tasks)

EvalCount(t) == Cardinality({i \in 1..Len(evalQueue) : evalQueue[i].id = t})

TopicCount(t) == Cardinality({i \in 1..Len(topic) : topic[i].id = t})

FullBody(body, ev) ==
    /\ DOMAIN body = {"player_id", "action", "game_state"}
    /\ body.player_id = ev.player_id
    /\ body.action = ev.action_type

Carries(inc, k, a) == k \in DOMAIN inc /\ a \in DOMAIN inc[k]

\* The value attribute a of player k has once inc is merged into gs.
Carried(gs, inc, k, a) == IF Carries(inc, k, a) THEN inc[k][a] ELSE gs[k][a]

\* Attributes perform_action never writes.
ResolverLeavesAlone == {"opponent_visible", "opponent_in_rain_bomb", "disconnected"}

\* ------------------------------------------------------------ C1

\* C1: the publications of an event are fixed by its (action, update) flags.
\* For every event whose callback ran to its end: action=true gives exactly
\* one publication on the evaluation queue and one on the topic; action=false
\* with update=true gives exactly one on the topic and none on the queue; both
\* false gives none. At any moment, whatever an event has published has the
\* shape of its route: {player_id, action, game_state} on the Action route,
\* {game_state} alone on the SyncBroadcast route and only there, and never
\* more than one publication per sink.
C1_RouteFixesPublications ==
    \A t \in TaskIds :
        LET ev == tasks[t].ev
        IN  /\ EvalCount(t) <= 1 /\ TopicCount(t) <= 1
            /\ tasks[t].pc = "acked" =>
                 /\ ev.action => EvalCount(t) = 1 /\ TopicCount(t) = 1
                 /\ (~ev.action /\ ev.update) => EvalCount(t) = 0 /\ TopicCount(t) = 1
                 /\ (~ev.action /\ ~ev.update) => EvalCount(t) = 0 /\ TopicCount(t) = 0
            /\ \A i \in 1..Len(evalQueue) :
                 evalQueue[i].id = t => ev.action /\ FullBody(evalQueue[i].body, ev)
            /\ \A i \in 1..Len(topic) :
                 topic[i].id = t =>
                    IF ev.action THEN FullBody(topic[i].body, ev)
                    ELSE ev.update /\ DOMAIN topic[i].body = {"game_state"}

\* An event with both flags set has run to its end.
C1_Witness ==
    \E t \in TaskIds :
        /\ tasks[t].ev.action /\ tasks[t].ev.update
        /\ tasks[t].pc = "acked"
        /\ EvalCount(t) = 1 /\ TopicCount(t) = 1

\* ------------------------------------------------------------ C2

\* C2: the next event is not processed before every publication of the
\* current one has completed or failed, so on each sink the publications are
\* in the order in which their events were received.
C2_NextEventWaitsForPublications ==
    /\ \A t1, t2 \in TaskIds : t1 < t2 => tasks[t1].pc \notin InFlight
    /\ \A i, j \in 1..Len(evalQueue) : i < j => evalQueue[i].id < evalQueue[j].id
    /\ \A i, j \in 1..Len(topic) : i < j => topic[i].id < topic[j].id

\* ------------------------------------------------------------ C3

\* C3: an event is acked only after its merge, its resolution and all the
\* publications of its route succeeded; an event one of whose publications
\* failed is neither acked nor dropped, it is left for redelivery. (pc
\* "rejected" is basic.reject with requeue=False: the broker discards it.)
C3_AckOnlyAfterSuccessElseRedelivered ==
    \A t \in TaskIds :
        /\ tasks[t].pc = "acked" =>
             /\ tasks[t].cause = "none"
             /\ tasks[t].ev.action => EvalCount(t) = 1 /\ TopicCount(t) = 1
             /\ (~tasks[t].ev.action /\ tasks[t].ev.update) => TopicCount(t) = 1
        /\ tasks[t].cause \in {"eval publish", "mqtt publish"} =>
             tasks[t].pc \notin {"acked", "rejected"}

\* ------------------------------------------------------------ C4

C5_MergeKeepsWhatIsNotCarried ==
    phase = "merged" =>
        \A k \in PlayerKeys : \A a \in Attrs :
            ~Carries(last.game_state, k, a) => game_state[k][a] = pre[k][a]

\* A merge that names one attribute of p1 and nothing of p2, on a store where
\* other attributes hold values of an earlier merge.
C5_Witness ==
    /\ phase = "merged"
    /\ Carries(last.game_state, "p1", "hp") /\ ~Carries(last.game_state, "p1", "login")
    /\ pre["p1"].login /\ pre["p1"].hp # game_state["p1"].hp
    /\ "p2" \notin DOMAIN last.game_state
    /\ pre["p2"] # InitPlayer

\* ------------------------------------------------------------ C6

\* C6: merging the same partial update a second time changes nothing: the
\* state after two merges is the state after one.
C6_MergeIdempotent ==
    phase = "merged twice" => game_state = pre

\* An update that changed the store has been merged twice.
C6_Witness ==
    /\ phase = "merged twice"
    /\ Carries(last.game_state, "p1", "hp")
    /\ Carries(last.game_state, "p2", "login")
    /\ game_state # InitGameState

\* ------------------------------------------------------------ C7

\* The opponent's values before the resolved action, and the total damage.
PreShield == pre[trace.opponent_key].shield_hp
PreHp == pre[trace.opponent_key].hp
TotalDamage == trace.total_damage

\* C7 as stated: for every resolved action, with S and H the opponent's
\* shield_hp and hp before it and D the total damage, the shield absorbs
\* min(S, D), shield_hp becomes S - min(S, D) and hp before any respawn is
\* H - (D - min(S, D)); hp is unchanged when D <= S.
C7_ShieldAbsorptionLaw ==
    phase = "resolved" =>
        /\ trace.damage_to_shield = Min(PreShield, TotalDamage)
        /\ trace.shield_after = PreShield - Min(PreShield, TotalDamage)
        /\ trace.hp_after_damage = PreHp - (TotalDamage - Min(PreShield, TotalDamage))
        /\ TotalDamage <= PreShield => game_state[trace.opponent_key].hp = PreHp

\* C7 amended: the law holds for every opponent whose shield_hp S is >= 0; a
\* negative shield_hp (written by a merge) absorbs nothing, is set to 0, and
\* the whole of D is taken from hp.
C7_ShieldAbsorptionLawInDomain ==
    phase = "resolved" =>
        IF PreShield >= 0
        THEN /\ trace.damage_to_shield = Min(PreShield, TotalDamage)
             /\ trace.shield_after = PreShield - Min(PreShield, TotalDamage)
             /\ game_state[trace.opponent_key].shield_hp = trace.shield_after
             /\ trace.hp_after_damage =
                    PreHp - (TotalDamage - Min(PreShield, TotalDamage))
             /\ TotalDamage <= PreShield => game_state[trace.opponent_key].hp = PreHp
        ELSE /\ trace.damage_to_shield = 0
             /\ trace.shield_after = 0
             /\ trace.hp_after_damage = PreHp - TotalDamage

\* A shield smaller than the damage: part is absorbed, the rest reaches hp.
C7_Witness ==
    /\ phase = "resolved"
    /\ PreShield > 0 /\ PreShield < TotalDamage
    /\ trace.hp_after_damage = PreHp - (TotalDamage - PreShield)
    /\ trace.hp_after_damage > 0

\* ------------------------------------------------------------ C8

\* C8 as stated: after any resolved action the opponent's hp is > 0; whenever
\* hp is <= 0 at the end of damage application, whether by this action's
\* damage or by an hp a merge wrote, the opponent is respawned with hp 100.
C8_HpPositiveAfterAnyAction ==
    phase = "resolved" =>
        /\ game_state[trace.opponent_key].hp > 0
        /\ trace.hp_after_damage <= 0 =>
              trace.respawned /\ game_state[trace.opponent_key].hp = 100

\* C8 amended: after an action that takes damage from the opponent's hp (the
\* damage left after the shield is > 0) the opponent's hp is > 0, and when
\* that deduction leaves hp <= 0 the opponent is respawned with hp exactly
\* 100; an action that leaves no damage for hp neither changes hp nor
\* respawns, whatever hp is.
C8_HpPositiveAfterDamage ==
    phase = "resolved" =>
        IF trace.remaining_damage > 0
        THEN /\ game_state[trace.opponent_key].hp > 0
             /\ trace.hp_after_damage <= 0 =>
                   trace.respawned /\ game_state[trace.opponent_key].hp = 100
             /\ trace.hp_after_damage > 0 =>
                   ~trace.respawned
                   /\ game_state[trace.opponent_key].hp = trace.hp_after_damage
        ELSE /\ ~trace.respawned
             /\ game_state[trace.opponent_key].hp = PreHp

\* An hp <= 0 that a merge wrote is normalised by an action that damages it.
C8_Witness ==
    /\ phase = "resolved"
    /\ PreHp <= 0
    /\ trace.remaining_damage > 0
    /\ trace.respawned
    /\ game_state[trace.opponent_key].hp = 100

\* ------------------------------------------------------------ C9

\* C9: a respawn sets the opponent's hp to 100, deaths to deaths + 1, shields
\* to 3, shield_hp to 0, bullets to 6 and bombs to 2, and leaves its
\* opponent_visible, opponent_in_rain_bomb, disconnected and login as they
\* were; damage that takes hp to exactly 0 respawns too.
C9_RespawnResetsExactly ==
    phase = "resolved" =>
        LET before == pre[trace.opponent_key]
            after == game_state[trace.opponent_key]
        IN  /\ trace.respawned =>
                /\ after.hp = 100
                /\ after.deaths = before.deaths + 1
                /\ after.shields = 3
                /\ after.shield_hp = 0
                /\ after.bullets = 6
                /\ after.bombs = 2
                /\ after.opponent_visible = before.opponent_visible
                /\ after.opponent_in_rain_bomb = before.opponent_in_rain_bomb
                /\ after.disconnected = before.disconnected
                /\ after.login = before.login
            /\ (trace.remaining_damage > 0 /\ trace.hp_after_damage = 0) =>
                trace.respawned

\* Damage took hp to exactly 0 and the player, whose resources and flags were
\* not the defaults, was reborn.
C9_Witness ==
    /\ phase = "resolved"
    /\ trace.respawned
    /\ trace.hp_after_damage = 0
    /\ pre[trace.opponent_key].login
    /\ pre[trace.opponent_key].bullets # 6
    /\ game_state[trace.opponent_key].deaths = pre[trace.opponent_key].deaths + 1

\* ------------------------------------------------------------ C10

\* C10 as stated: across any event, whatever it carries, no player's deaths
\* counter decreases or becomes negative.
C10_DeathsNeverDecrease ==
    [][\A k \in PlayerKeys :
          /\ game_state'[k].deaths >= game_state[k].deaths
          /\ game_state'[k].deaths >= 0]_vars

\* C10 amended: across any event whose partial game_state does not carry a
\* player's deaths, that player's deaths counter does not decrease (so it
\* stays non-negative while it is so); an event that carries deaths sets the
\* counter to the carried value, plus 1 if the player dies in that event.
C10_DeathsKeptUnlessCarried ==
    [][\A k \in PlayerKeys :
          IF Carries(last'.game_state, k, "deaths") /\ steps' > steps
          THEN game_state'[k].deaths - last'.game_state[k].deaths \in {0, 1}
          ELSE /\ game_state'[k].deaths >= game_state[k].deaths
               /\ game_state[k].deaths >= 0 => game_state'[k].deaths >= 0]_vars

\* A player died in an event that does not carry its deaths.
C10_Witness ==
    /\ steps > 0
    /\ ~Carries(last.game_state, "p2", "deaths")
    /\ game_state["p2"].deaths = pre["p2"].deaths + 1

\* ------------------------------------------------------------ C11

\* The actor of the resolved action, before and after it, and the opponent
\* after it.
Resolved == phase = "resolved"
Actor == pre[trace.player_key]
ActorAfter == game_state[trace.player_key]
OpponentAfter == game_state[trace.opponent_key]

\* C11: on every resolved action, whatever its type, the total damage is the
\* action's own damage plus 5 * c when the actor's opponent_in_rain_bomb c is
\* positive and its opponent_visible is true, and the action's own damage
\* alone when c is 0 or the opponent is not visible; an unshielded opponent
\* with more hp than that loses exactly the total. A reload with bullets = 0,
\* c = 2 and the opponent visible leaves the actor 6 bullets and deals 10.
C11_RainDamageOnEveryAction ==
    Resolved =>
        LET c == Actor.opponent_in_rain_bomb
        IN  /\ (c > 0 /\ Actor.opponent_visible) =>
                  TotalDamage = trace.base_damage + 5 * c
            /\ (c = 0 \/ ~Actor.opponent_visible) =>
                  TotalDamage = trace.base_damage
            /\ (PreShield = 0 /\ PreHp > TotalDamage) =>
                  OpponentAfter.hp = PreHp - TotalDamage
            /\ (last.action_type = "reload" /\ Actor.bullets = 0 /\ c = 2
                  /\ Actor.opponent_visible) =>
                  ActorAfter.bullets = 6 /\ TotalDamage = 10

\* A reload of an empty gun under two rain bombs took 10 hp from an
\* unshielded opponent.
C11_Witness ==
    /\ Resolved
    /\ last.action_type = "reload"
    /\ Actor.bullets = 0 /\ ActorAfter.bullets = 6
    /\ Actor.opponent_in_rain_bomb = 2 /\ Actor.opponent_visible
    /\ trace.base_damage = 0
    /\ PreShield = 0 /\ PreHp = 100 /\ OpponentAfter.hp = 90

\* ------------------------------------------------------------ C12

\* C12 as stated: an action whose type is none of the nine known ones leaves
\* every attribute of both players as it was.
C12_UnknownActionChangesNothing ==
    (Resolved /\ last.action_type \notin ActionTypes) => game_state = pre

\* C12 amended: an action whose type is none of the nine known ones has no
\* damage of its own and changes no attribute of the actor, and no error is
\* raised; the opponent is still dealt the rain damage, and an opponent's
\* shield_hp that is not positive is set to 0. When the total damage is 0 and
\* the opponent's shield_hp is not negative, every attribute of both players
\* is as it was.
C12_UnknownActionHasNoEffectOfItsOwn ==
    (Resolved /\ last.action_type \notin ActionTypes) =>
        /\ trace.base_damage = 0
        /\ ActorAfter = Actor
        /\ TotalDamage = IF Actor.opponent_in_rain_bomb > 0 /\ Actor.opponent_visible
                         THEN 5 * Actor.opponent_in_rain_bomb ELSE 0
        /\ \A a \in Attrs \ {"hp", "shield_hp"} :
              (TotalDamage = 0 \/ ~trace.respawned) =>
                 OpponentAfter[a] = pre[trace.opponent_key][a]
        /\ (TotalDamage = 0 /\ PreShield >= 0) => game_state = pre

\* An unknown action by an actor with an empty gun who sees the opponent,
\* with no rain bomb, left both players as they were.
C12_Witness ==
    /\ Resolved
    /\ last.action_type \notin ActionTypes
    /\ Actor.opponent_visible /\ Actor.opponent_in_rain_bomb = 0
    /\ Actor.bullets = 0
    /\ game_state = pre

\* ------------------------------------------------------------ C13

\* C13: the resolver never raises: whatever player_id, action_type and hit
\* it is called with, the call ends normally, and an input that is not valid
\* changes nothing.
C13_ResolverNeverRaises ==
    /\ phase # "raised"
    /\ (Resolved /\ ~ValidPlayerId(last.player_id)) => game_state = pre

\* ------------------------------------------------------------ C15

\* C15: a reload sets the actor's bullets to 6 when bullets is 0 and changes
\* nothing else of the actor; with any other bullets it leaves every
\* attribute of the actor as it was. A shield action decrements shields and
\* sets shield_hp to 30 when shields > 0 and shield_hp = 0 and changes
\* nothing else of the actor; otherwise it leaves every attribute of the
\* actor as it was. Neither has damage of its own.
C15_ReloadAndShieldOnlyWhenEnabled ==
    /\ (Resolved /\ last.action_type = "reload") =>
          /\ ActorAfter = IF Actor.bullets = 0
                          THEN [Actor EXCEPT !.bullets = 6] ELSE Actor
          /\ trace.base_damage = 0
    /\ (Resolved /\ last.action_type = "shield") =>
          /\ ActorAfter = IF Actor.shields > 0 /\ Actor.shield_hp = 0
                          THEN [Actor EXCEPT !.shields = @ - 1, !.shield_hp = 30]
                          ELSE Actor
          /\ trace.base_damage = 0

\* A shield action with charges left and a shield still active changed
\* nothing of the actor.
C15_Witness ==
    /\ Resolved
    /\ last.action_type = "shield"
    /\ Actor.shields = 3 /\ Actor.shield_hp = 30
    /\ ActorAfter = Actor

\* ------------------------------------------------------------ C16

\* C16: a gun action with bullets > 0 decrements the actor's bullets by
\* exactly 1 whether or not it hits and changes nothing else of the actor;
\* its own damage is 5 when hit is true and 0 otherwise, whatever
\* opponent_visible is. With bullets = 0 the actor is unchanged and the
\* damage is 0 even when hit is true. From the initial state a hit by player
\* 1 leaves player 1 with 5 bullets and player 2 with hp 95.
C16_GunSpendsBulletAndHitsForFive ==
    (Resolved /\ last.action_type = "gun") =>
        /\ Actor.bullets > 0 =>
              /\ ActorAfter = [Actor EXCEPT !.bullets = @ - 1]
              /\ trace.base_damage = IF last.hit THEN 5 ELSE 0
        /\ Actor.bullets = 0 =>
              /\ ActorAfter = Actor
              /\ trace.base_damage = 0
        /\ (pre = InitGameState /\ last.player_id = 1 /\ last.hit) =>
              /\ game_state["p1"].bullets = 5
              /\ game_state["p2"].hp = 95

\* From the initial state, a hit by player 1 left it 5 bullets and player 2
\* hp 95.
C16_Witness ==
    /\ Resolved
    /\ last.action_type = "gun" /\ last.hit /\ last.player_id = 1
    /\ pre = InitGameState
    /\ game_state = [InitGameState EXCEPT !["p1"].bullets = 5, !["p2"].hp = 95]

\* ------------------------------------------------------------ C17

\* C17: a bomb action decrements the actor's bombs by 1 and has damage 5
\* exactly when bombs > 0 and opponent_visible is true; otherwise it changes
\* nothing of the actor and has damage 0. A basket, volley, soccer or bowl
\* action has damage 10 exactly when opponent_visible is true, 0 otherwise,
\* and never changes an attribute of the actor.
C17_BombAndStrikesNeedVisibility ==
    /\ (Resolved /\ last.action_type = "bomb") =>
          IF Actor.bombs > 0 /\ Actor.opponent_visible
          THEN /\ ActorAfter = [Actor EXCEPT !.bombs = @ - 1]
               /\ trace.base_damage = 5
          ELSE /\ ActorAfter = Actor
               /\ trace.base_damage = 0
    /\ (Resolved /\ last.action_type \in {"basket", "volley", "soccer", "bowl"}) =>
          /\ ActorAfter = Actor
          /\ trace.base_damage = IF Actor.opponent_visible THEN 10 ELSE 0

\* A bomb thrown with bombs left at an opponent not seen changed nothing and
\* took no hp.
C17_Witness ==
    /\ Resolved
    /\ last.action_type = "bomb"
    /\ Actor.bombs = 2 /\ ~Actor.opponent_visible
    /\ ActorAfter = Actor
    /\ OpponentAfter.hp = PreHp /\ PreHp = 100

\* ------------------------------------------------------------ C14

MalformedCauses == {"JSONDecodeError", "TypeError"}

\* C14: a malformed inbound event (a body that is not JSON, or a game_state
\* that is not a mapping of player keys to attribute mappings) is rejected
\* without effect: the game state after it equals the state before it, and
\* it causes no publication on either sink.
C14_MalformedEventHasNoEffect ==
    \A t \in TaskIds :
        tasks[t].cause \in MalformedCauses =>
            /\ EvalCount(t) = 0 /\ TopicCount(t) = 0
            /\ t = Len(tasks) => game_state = pre

\* ------------------------------------------------------------ C18

\* The store after the merge and, on the Action route, the resolution of
\* one event, applied to the store gs.
MergedAndResolved(gs, ev) ==
    LET merged == update_internal_game_state(gs, ev.game_state)
    IN  IF ev.action /\ ValidPlayerId(ev.player_id)
        THEN perform_action(merged, ev.player_id, ev.action_type, ev.hit).gs
        ELSE merged

\* C18: at most one event's mutation of the game state is in flight. Every
\* step that changes the game state is the delivery of one event, and the
\* change is that event's merge and resolution as a whole, applied to the
\* state the step started in; the callbacks suspended in a publication are
\* not touched by it, and their resumption (a publish that returns or fails)
\* never changes the game state.
C18_OneMutationAtATime ==
    [][game_state' # game_state =>
          /\ Len(tasks') = Len(tasks) + 1
          /\ \A t \in 1..Len(tasks) : tasks'[t] = tasks[t]
          /\ game_state' = MergedAndResolved(game_state, last')
          /\ pre' = game_state]_vars

\* An action event changed the game state while the callback of an earlier
\* action event was suspended in a publication.
C18_Witness ==
    /\ Len(tasks) = 2
    /\ tasks[1].pc \in InFlight /\ tasks[1].ev.action
    /\ phase = "delivered"
    /\ last.action /\ trace.called
    /\ game_state # pre

\* ------------------------------------------------------------ C19

\* The game states event t has published on the two sinks.
EvalStates(t) ==
    {evalQueue[i].body.game_state : i \in {j \in 1..Len(evalQueue) : evalQueue[j].id = t}}
TopicStates(t) ==
    {topic[i].body.game_state : i \in {j \in 1..Len(topic) : topic[j].id = t}}

\* C19: every published game_state is the snapshot taken right after the
\* publishing event's own merge (and resolution): what an event publishes on
\* the evaluation queue and on the topic is one and the same game_state, the
\* one its callback serialised before its first await, and for the event
\* delivered last it is its merge and resolution applied to the state it
\* found; a mutation by an event delivered while the publications were
\* pending is in neither payload.
C19_PublishedStateIsOwnSnapshot ==
    \A t \in TaskIds :
        /\ \A g \in EvalStates(t) \cup TopicStates(t) :
              /\ g = tasks[t].str.game_state
              /\ t = Len(tasks) => g = MergedAndResolved(pre, tasks[t].ev)
        /\ Cardinality(EvalStates(t) \cup TopicStates(t)) <= 1

\* The first event published on both sinks the same game_state, and the
\* second event, delivered while the first awaited the evaluation queue, had
\* already changed the store and broadcast the changed state.
C19_Witness ==
    /\ Len(topic) = 2 /\ Len(evalQueue) = 1
    /\ topic[1].id = 2 /\ topic[2].id = 1 /\ evalQueue[1].id = 1
    /\ topic[2].body.game_state = evalQueue[1].body.game_state
    /\ topic[1].body.game_state # topic[2].body.game_state
    /\ game_state = topic[1].body.game_state

\* ------------------------------------------------------------ C20

\* C20: in every state reached from the initial one through events whose
\* partial game_state carries only opponent_visible, opponent_in_rain_bomb
\* (never negative), disconnected and login and whose player_id is 1 or 2,
\* both players have 1 <= hp <= 100, 0 <= bullets <= 6, 0 <= bombs <= 2,
\* 0 <= shields <= 3, 0 <= shield_hp <= 30 and deaths >= 0.
C20_AttributesStayInRange ==
    \A k \in PlayerKeys :
        /\ game_state[k].hp \in 1..100
        /\ game_state[k].bullets \in 0..6
        /\ game_state[k].bombs \in 0..2
        /\ game_state[k].shields \in 0..3
        /\ game_state[k].shield_hp \in 0..30
        /\ game_state[k].deaths >= 0

\* Player 1 has emptied its gun and player 2 has died once and is back at
\* full hp.
C20_Witness ==
    /\ game_state["p1"].bullets = 0
    /\ game_state["p2"].deaths = 1
    /\ game_state["p2"].hp = 100

====
